---- MODULE Spec2Model ----
(***************************************************************************)
(* Task access and lifecycle policy of the task-management backend:       *)
(* the /api/tasks router (list, get, create, update, delete, document     *)
(* removal), the account deletion of the /api/users router, the multer    *)
(* upload configuration and the express error handler.                    *)
(*                                                                         *)
(* Every action is one HTTP request handled from the first middleware to  *)
(* the response.  The store (users, tasks, docs) is the database; req,    *)
(* res and emitted record the request just handled, its response and the  *)
(* socket events it emitted; pre is the part of the store, as it was      *)
(* before the request, that the request is about.  blobs is the upload    *)
(* directory (the file of each document: present, absent, or present and  *)
(* not removable) and ioUp tells whether the socket server emits without  *)
(* raising an error.                                                      *)
(***************************************************************************)
EXTENDS Integers, Sequences, FiniteSets, TLC

VARIABLES users, emails, tasks, docs, nextTask, nextDoc, req, res, emitted, pre,
          blobs, ioUp, flight

store == <<users, emails, tasks, docs, nextTask, nextDoc, blobs>>
vars == <<users, emails, tasks, docs, nextTask, nextDoc, req, res, emitted, pre,
          blobs, ioUp, flight>>

(***************************************************************************)
(* Bounds of the model.                                                    *)
(***************************************************************************)
\* task identifiers ever allocated
MaxTasks == 2
\* document identifiers ever allocated
MaxDocs == 4
\* files carried by one multipart request
MaxFiles == 4
\* requests served at the same time
MaxProcs == 2

(***************************************************************************)
(* Program constants.                                                      *)
(***************************************************************************)
\* multer limits.files and the literal 3 of the update handler
MaxDocuments == 3

(***************************************************************************)
(* Identifiers and values.                                                 *)
(***************************************************************************)
UserIds == {"u1", "u2", "u3"}
\* the identifier the next account created by POST /api/users gets
NewUserIds == {"u4"}
\* a well-formed ObjectId that names no user
GhostUser == "u0"
\* the same 24 hex digits written in upper case
UpperIds == {"U1", "U2", "U3"}
\* the value of a field that is not in the request (undefined)
Absent == "absent"
\* null in an ObjectId field
NoUser == "nobody"
\* null in the dueDate field
NoDate == "nodate"
PastDate == "2001-01-01"
FutureDate == "2999-01-01"
Dates == {PastDate, FutureDate}

TaskIds == 1..MaxTasks
DocIds == 1..MaxDocs
\* 0 stands for a path parameter that is not a 24-digit hex string
PathIds == 0..MaxTasks

Statuses == {"pending", "in_progress", "completed"}
Priorities == {"low", "medium", "high"}

NoTask == [exists |-> FALSE]
NoDoc == [exists |-> FALSE]

EmptyBody == [title |-> Absent, description |-> Absent, status |-> Absent,
              priority |-> Absent, dueDate |-> Absent, assignedTo |-> Absent,
              createdBy |-> Absent]
EmptyQuery == [search |-> Absent, status |-> Absent, priority |-> Absent,
               assignedTo |-> Absent, createdBy |-> Absent,
               dueDateFrom |-> Absent, dueDateTo |-> Absent,
               sortOrder |-> Absent, page |-> 1, limit |-> 10]

PdfFile == [mimetype |-> "application/pdf", size |-> 1]
EmptyPdfFile == [mimetype |-> "application/pdf", size |-> 0]
JpegFile == [mimetype |-> "image/jpeg", size |-> 1]

(***************************************************************************)
(* Helpers over the store.                                                 *)
(***************************************************************************)
\* User.findById(id) finds a user
UserExists(u) == u \in UserIds /\ users[u] # "none"

\* Task.findById(id) finds a task
TaskExists(id) == id \in TaskIds /\ tasks[id].exists

\* TaskDocument.find({ taskId })
\* the document records found by identifier alone, whatever their task
AnyDocRecord(id) == {d \in DocIds : docs[d].exists}

\* TaskDocument.find({ taskId: id }); with an _id, findOne({ _id, taskId })
DocsOfTask(id) == {d \in DocIds : docs[d].exists /\ docs[d].taskId = id}

\* the authenticated principals: accounts that exist
Principals == {u \in UserIds : users[u] # "none"}

Range(s) == {s[i] : i \in 1..Len(s)}

\* the part of the store a request on task id is about, before the request
Snapshot(id) ==
  [task |-> IF id \in TaskIds THEN tasks[id] ELSE NoTask,
   docs |-> {d \in DocIds : docs[d].exists /\ docs[d].taskId = id},
   nextTask |-> nextTask,
   nextDoc |-> nextDoc,
   blobs |-> blobs,
   records |-> docs]

Request(op, p, id, docId, body, files, query) ==
  [op |-> op, user |-> p, id |-> id, docId |-> docId, body |-> body,
   files |-> files, query |-> query]

\* no request has been handled since the last change of the environment
NoRequest == Request("none", "u1", 0, 0, EmptyBody, <<>>, EmptyQuery)

Response(status, message, data) ==
  [status |-> status, message |-> message, data |-> data]

(***************************************************************************)
(* Validators (express-validator chains of the routes).                    *)
(***************************************************************************)
\* isMongoId() on a body field: 24 hex digits, in either case
IsMongoId(v) == v \in UserIds \cup UpperIds \cup {GhostUser}

\* the ObjectId a 24-digit hex text is cast to (hex digits have no case)
ToObjectId(v) ==
  CASE v = "U1" -> "u1" [] v = "U2" -> "u2" [] v = "U3" -> "u3" [] OTHER -> v

\* isISO8601()
IsISO8601(v) == v \in Dates

\* param('id').isMongoId()
ValidPathId(id) == id # 0

(***************************************************************************)
(* Error handler (middleware/error.js) and multer upload.                  *)
(***************************************************************************)
\* errorHandler: the response for an error passed to next(err)
ErrorHandler(err) ==
  IF err.code = "LIMIT_FILE_SIZE" THEN Response(400, "File too large", <<>>)
  ELSE IF err.code = "LIMIT_FILE_COUNT" THEN Response(400, "Too many files", <<>>)
  ELSE IF err.code = "LIMIT_UNEXPECTED_FILE"
    THEN Response(400, "Unexpected file field", <<>>)
  ELSE IF err.name = "CastError" THEN Response(400, "Invalid ID format", <<>>)
  ELSE Response(IF err.statusCode # 0 THEN err.statusCode ELSE 500,
                err.message, <<>>)

\* a plain Error / TypeError: no code, no statusCode
PlainError(name, message) ==
  [name |-> name, code |-> "", statusCode |-> 0, message |-> message]
MulterError(code) ==
  [name |-> "MulterError", code |-> code, statusCode |-> 0, message |-> code]
NoError == [name |-> "", code |-> "", statusCode |-> 0, message |-> ""]

\* fileFilter: accepts a file or fails with an error
fileFilter(file) ==
  IF file.mimetype = "application/pdf" THEN NoError
  ELSE PlainError("Error", "Only PDF files are allowed")

\* the error of the i-th file part: past limits.files the parser reports the
\* file count, before that the file goes through fileFilter
FilePartError(files, i) ==
  IF i > MaxDocuments THEN MulterError("LIMIT_FILE_COUNT") ELSE fileFilter(files[i])

\* upload.array('documents', 3): the first error met while the parts arrive
upload(files) ==
  LET bad == {i \in 1..Len(files) : FilePartError(files, i) # NoError}
  IN IF bad = {} THEN NoError
     ELSE FilePartError(files, CHOOSE i \in bad : \A j \in bad : i <= j)

(***************************************************************************)
(* Task model (models/Task.js) and document model (models/TaskDocument.js) *)
(***************************************************************************)
\* trim: true of the schema, on the text values of the model
Trim(s) == IF s = " " THEN "" ELSE s

\* schema validation run by task.save() on the paths that were set
TaskValid(t) ==
  /\ t.title # ""
  /\ t.status \in Statuses
  /\ t.priority \in Priorities
  /\ t.dueDate = NoDate \/ t.dueDate = FutureDate

\* schema validation run by document.save()
DocumentValid(file) == file.size >= 1 /\ file.mimetype = "application/pdf"

\* the files of a request whose document.save() succeeds, in request order
SavedFiles(files) == SelectSeq(files, DocumentValid)

\* the store after n documents of task id uploaded by p were saved
DocsAfterSave(id, p, n) ==
  [d \in DocIds |->
     IF d >= nextDoc /\ d < nextDoc + n
       THEN [exists |-> TRUE, taskId |-> id, uploadedBy |-> p]
       ELSE docs[d]]

\* the upload directory after multer stored the files of those documents
BlobsAfterSave(n) ==
  [d \in DocIds |-> IF d >= nextDoc /\ d < nextDoc + n THEN "present" ELSE blobs[d]]

\* fs.unlink(doc.filePath) inside its own try/catch, for each document of D:
\* a file that cannot be unlinked stays, a missing one raises ENOENT
Unlinked(D) ==
  [d \in DocIds |-> IF d \in D /\ blobs[d] = "present" THEN "absent" ELSE blobs[d]]

\* the identifiers of those documents, in order
NewDocIds(n) == [i \in 1..n |-> nextDoc + i - 1]

(***************************************************************************)
(* POST /api/tasks                                                         *)
(***************************************************************************)
CreateValid(b) ==
  /\ b.title # Absent /\ b.title # ""
  /\ b.status = Absent \/ b.status \in Statuses
  /\ b.priority = Absent \/ b.priority \in Priorities
  /\ b.dueDate = Absent \/ IsISO8601(b.dueDate)
  /\ b.assignedTo = Absent \/ IsMongoId(b.assignedTo)

\* new Task({...}) with createdBy read from the payload when it is there
NewTaskFromPayload(p, b) ==
  [exists |-> TRUE,
   title |-> Trim(b.title),
   description |-> IF b.description = Absent THEN "" ELSE Trim(b.description),
   status |-> IF b.status \in {Absent, ""} THEN "pending" ELSE b.status,
   priority |-> IF b.priority \in {Absent, ""} THEN "medium" ELSE b.priority,
   dueDate |-> IF b.dueDate \in {Absent, ""} THEN NoDate ELSE b.dueDate,
   assignedTo |-> IF b.assignedTo \in {Absent, ""} THEN NoUser
                  ELSE ToObjectId(b.assignedTo),
   createdBy |-> IF b.createdBy = Absent THEN p ELSE b.createdBy,
   documents |-> <<>>]

\* new Task({...}) of the handler
NewTask(p, b) ==
  [exists |-> TRUE,
   title |-> Trim(b.title),
   description |-> IF b.description = Absent THEN "" ELSE Trim(b.description),
   status |-> IF b.status \in {Absent, ""} THEN "pending" ELSE b.status,
   priority |-> IF b.priority \in {Absent, ""} THEN "medium" ELSE b.priority,
   dueDate |-> IF b.dueDate \in {Absent, ""} THEN NoDate ELSE b.dueDate,
   assignedTo |-> IF b.assignedTo \in {Absent, ""} THEN NoUser
                  ELSE ToObjectId(b.assignedTo),
   createdBy |-> p,
   documents |-> <<>>]

\* the strings the handlers build room names from: an ObjectId (or the body
\* value naming it) prints as its hex digits, a populated document prints
\* as the inspection of the document, null?.toString() is undefined
HexString(v) == [kind |-> "hex", text |-> v]
DocumentString(u) == [kind |-> "document", text |-> u]
Undefined == [kind |-> "undefined", text |-> ""]

\* `user_${s}`
Room(s) == [prefix |-> "user_", of |-> s]
\* the room the socket of user u joins on connection
UserRoom(u) == Room(HexString(u))

Event(name, room, id) == [event |-> name, room |-> room, task |-> id]

\* the look-up of the assignee left out
AssigneeNeverMissing(a) == FALSE

\* if (assignedTo) { ... if (!assignedUser) ... }
AssigneeMissing(a) == a \notin {Absent, ""} /\ ~UserExists(ToObjectId(a))

\* the step at which the create handler ends
CreateOutcome(p, b, files) ==
  IF upload(files) # NoError THEN "upload_error"
  ELSE IF ~CreateValid(b) THEN "invalid"
  ELSE IF AssigneeMissing(b.assignedTo) THEN "no_assignee"
  ELSE IF ~TaskValid(NewTask(p, b)) THEN "task_save_failed"
  ELSE IF Len(SavedFiles(files)) # Len(files) THEN "document_save_failed"
  ELSE "created"

CreateTask(p, b, files) ==
  LET out == CreateOutcome(p, b, files)
      id == nextTask
      n == Len(SavedFiles(files))
      saved == out \in {"document_save_failed", "created"}
      \* the events the handler goes on to emit
      events == IF out = "created" /\ b.assignedTo \notin {Absent, ""}
                     /\ HexString(b.assignedTo) # HexString(p)
                  THEN <<Event("taskAssigned", Room(HexString(b.assignedTo)), id)>>
                  ELSE <<>>
  IN
  /\ p \in Principals
  /\ saved => (nextTask <= MaxTasks /\ nextDoc + n - 1 <= MaxDocs)
  /\ req' = Request("createTask", p, 0, 0, b, files, EmptyQuery)
  /\ pre' = Snapshot(0)
  /\ res' = CASE out = "upload_error" -> ErrorHandler(upload(files))
              [] out = "invalid" -> Response(400, "Validation failed", <<>>)
              [] out = "no_assignee" -> Response(400, "Assigned user not found", <<>>)
              [] out = "task_save_failed" -> Response(500, "Error creating task", <<>>)
              [] out = "document_save_failed" -> Response(500, "Error creating task", <<>>)
              [] out = "created" ->
                   IF events # <<>> /\ ~ioUp
                     THEN Response(500, "Error creating task", <<>>)
                     ELSE Response(201, "Task created successfully", <<id>>)
  /\ tasks' = IF ~saved THEN tasks
              ELSE [tasks EXCEPT ![id] =
                      [NewTask(p, b) EXCEPT !.documents =
                         IF out = "created" THEN NewDocIds(n) ELSE <<>>]]
  /\ nextTask' = IF saved THEN nextTask + 1 ELSE nextTask
  /\ docs' = IF saved THEN DocsAfterSave(id, p, n) ELSE docs
  /\ nextDoc' = IF saved THEN nextDoc + n ELSE nextDoc
  /\ blobs' = IF saved THEN BlobsAfterSave(n) ELSE blobs
  /\ emitted' = IF ioUp THEN events ELSE <<>>
  /\ UNCHANGED <<users, emails, ioUp, flight>>

(***************************************************************************)
(* GET /api/tasks/:id                                                      *)
(***************************************************************************)
\* populate('createdBy'): the referenced user, or null when it is gone
Populated(u) == IF UserExists(u) THEN u ELSE NoUser

\* the permission test of the handler, on the populated task; "throws"
\* when createdBy populated to null and .equals is called on it
ViewCheck(p, t) ==
  IF users[p] = "admin" THEN "allow"
  ELSE IF Populated(t.assignedTo) = p THEN "allow"
  ELSE IF Populated(t.createdBy) = NoUser THEN "throws"
  ELSE IF Populated(t.createdBy) = p THEN "allow"
  ELSE "deny"

GetTaskResponse(p, id) ==
  IF ~ValidPathId(id) THEN Response(400, "Validation failed", <<>>)
  ELSE IF ~TaskExists(id) THEN Response(404, "Task not found", <<>>)
  ELSE IF ViewCheck(p, tasks[id]) = "deny"
    THEN Response(403, "Access denied", <<>>)
  ELSE IF ViewCheck(p, tasks[id]) = "throws"
    THEN ErrorHandler(PlainError("TypeError", "Cannot read properties of null"))
  ELSE Response(200, "ok", <<id>>)

GetTask(p, id) ==
  /\ p \in Principals
  /\ req' = Request("getTask", p, id, 0, EmptyBody, <<>>, EmptyQuery)
  /\ pre' = Snapshot(id)
  /\ res' = GetTaskResponse(p, id)
  /\ emitted' = <<>>
  /\ UNCHANGED <<store, ioUp, flight>>

(***************************************************************************)
(* GET /api/tasks                                                          *)
(***************************************************************************)
\* $regex with $options 'i' over the text values of the model
RegexHits ==
  {<<"fix", "Fix bug">>, <<"fix", "fix later">>, <<"bug", "Fix bug">>,
   <<"plan", "Plan trip">>, <<"later", "fix later">>}
RegexMatch(pattern, text) == <<pattern, text>> \in RegexHits

\* a stored date against a bound of the query
DateGte(d, bound) == d = bound \/ (d = FutureDate /\ bound = PastDate)
DateLte(d, bound) == d = bound \/ (d = PastDate /\ bound = FutureDate)

\* a query value cast to ObjectId fails: Task.find rejects with a CastError
QueryCastFails(q) ==
  \/ q.assignedTo \notin {Absent, ""} /\ ~IsMongoId(q.assignedTo)
  \/ q.createdBy \notin {Absent, ""} /\ ~IsMongoId(q.createdBy)

\* the query object with the ownership clause replaced, not conjoined, when a
\* filter on assignedTo or createdBy is given
QueryMatchesOverwritten(p, q, t) ==
  /\ (users[p] # "admin" /\ q.assignedTo \in {Absent, ""}
        /\ q.createdBy \in {Absent, ""})
       => (t.assignedTo = p \/ t.createdBy = p)
  /\ q.search \notin {Absent, ""} =>
       (RegexMatch(q.search, t.title) \/ RegexMatch(q.search, t.description))
  /\ q.status \notin {Absent, ""} => t.status = q.status
  /\ q.priority \notin {Absent, ""} => t.priority = q.priority
  /\ q.assignedTo \notin {Absent, ""} => t.assignedTo = ToObjectId(q.assignedTo)
  /\ q.createdBy \notin {Absent, ""} => t.createdBy = ToObjectId(q.createdBy)
  /\ q.dueDateFrom \notin {Absent, ""} =>
       (t.dueDate # NoDate /\ DateGte(t.dueDate, q.dueDateFrom))
  /\ q.dueDateTo \notin {Absent, ""} =>
       (t.dueDate # NoDate /\ DateLte(t.dueDate, q.dueDateTo))

\* the query object built by the handler, as a predicate on a stored task
QueryMatches(p, q, t) ==
  /\ users[p] # "admin" => (t.assignedTo = p \/ t.createdBy = p)
  /\ q.search \notin {Absent, ""} =>
       (RegexMatch(q.search, t.title) \/ RegexMatch(q.search, t.description))
  /\ q.status \notin {Absent, ""} => t.status = q.status
  /\ q.priority \notin {Absent, ""} => t.priority = q.priority
  /\ q.assignedTo \notin {Absent, ""} => t.assignedTo = ToObjectId(q.assignedTo)
  /\ q.createdBy \notin {Absent, ""} => t.createdBy = ToObjectId(q.createdBy)
  /\ q.dueDateFrom \notin {Absent, ""} =>
       (t.dueDate # NoDate /\ DateGte(t.dueDate, q.dueDateFrom))
  /\ q.dueDateTo \notin {Absent, ""} =>
       (t.dueDate # NoDate /\ DateLte(t.dueDate, q.dueDateTo))

RECURSIVE SortedIds(_, _)
\* the identifiers of set S in creation order (createdAt), ascending or not
SortedIds(S, asc) ==
  IF S = {} THEN <<>>
  ELSE LET first == IF asc THEN CHOOSE x \in S : \A y \in S : x <= y
                    ELSE CHOOSE x \in S : \A y \in S : x >= y
       IN <<first>> \o SortedIds(S \ {first}, asc)

\* .skip(skip).limit(limitNum)
Page(s, page, limit) ==
  LET skip == (page - 1) * limit
  IN SubSeq(s, skip + 1, IF skip + limit < Len(s) THEN skip + limit ELSE Len(s))

ListTasksResponse(p, q) ==
  IF QueryCastFails(q) THEN Response(500, "Error fetching tasks", <<>>)
  ELSE Response(200, "ok",
         Page(SortedIds({id \in TaskIds : tasks[id].exists
                                         /\ QueryMatches(p, q, tasks[id])},
                        q.sortOrder = "asc"),
              q.page, q.limit))

ListTasks(p, q) ==
  /\ p \in Principals
  /\ req' = Request("listTasks", p, 0, 0, EmptyBody, <<>>, q)
  /\ pre' = Snapshot(0)
  /\ res' = ListTasksResponse(p, q)
  /\ emitted' = <<>>
  /\ UNCHANGED <<store, ioUp, flight>>

(***************************************************************************)
(* PUT /api/tasks/:id                                                      *)
(***************************************************************************)
UpdateValid(id, b) ==
  /\ ValidPathId(id)
  /\ b.title = Absent \/ b.title # ""
  /\ b.status = Absent \/ b.status \in Statuses
  /\ b.priority = Absent \/ b.priority \in Priorities
  /\ b.dueDate = Absent \/ IsISO8601(b.dueDate)
  /\ b.assignedTo = Absent \/ IsMongoId(b.assignedTo)

\* the update test without its assignee clause
CanUpdateCreatorOnly(p, t) == users[p] = "admin" \/ t.createdBy = p

\* the permission test of the update handler
CanUpdate(p, t) ==
  \/ users[p] = "admin"
  \/ t.createdBy = p
  \/ (t.assignedTo # NoUser /\ t.assignedTo = p)

\* the update that starts from the defaults of the schema: a status or a
\* priority that is not in the payload falls back to its default
UpdatedTaskFromDefaults(t, b) ==
  [t EXCEPT
     !.title = IF b.title # Absent THEN Trim(b.title) ELSE @,
     !.description = IF b.description # Absent THEN Trim(b.description) ELSE @,
     !.status = IF b.status # Absent THEN b.status ELSE "pending",
     !.priority = IF b.priority # Absent THEN b.priority ELSE "medium",
     !.dueDate = IF b.dueDate # Absent
                   THEN (IF b.dueDate = "" THEN NoDate ELSE b.dueDate) ELSE @,
     !.assignedTo = IF b.assignedTo # Absent
                      THEN (IF b.assignedTo \in {"null", ""} THEN NoUser
                            ELSE ToObjectId(b.assignedTo))
                      ELSE @]

\* the field assignments of the handler
UpdatedTask(t, b) ==
  [t EXCEPT
     !.title = IF b.title # Absent THEN Trim(b.title) ELSE @,
     !.description = IF b.description # Absent THEN Trim(b.description) ELSE @,
     !.status = IF b.status # Absent THEN b.status ELSE @,
     !.priority = IF b.priority # Absent THEN b.priority ELSE @,
     !.dueDate = IF b.dueDate # Absent
                   THEN (IF b.dueDate = "" THEN NoDate ELSE b.dueDate) ELSE @,
     !.assignedTo = IF b.assignedTo # Absent
                      THEN (IF b.assignedTo \in {"null", ""} THEN NoUser
                            ELSE ToObjectId(b.assignedTo))
                      ELSE @]

\* task.assignedTo?.toString() before and after populate('assignedTo')
OldAssignedTo(t) ==
  IF t.assignedTo = NoUser THEN Undefined ELSE HexString(t.assignedTo)
NewAssignedTo(t) ==
  IF Populated(t.assignedTo) = NoUser THEN Undefined
  ELSE DocumentString(t.assignedTo)

\* the events of a successful update
UpdateEvents(id, old, new) ==
  (IF new # Undefined /\ new # old
     THEN <<Event("taskAssigned", Room(new), id)>> ELSE <<>>)
  \o (IF new # Undefined THEN <<Event("taskUpdated", Room(new), id)>> ELSE <<>>)

\* the documents the task lists, counted instead of its records
AttachedDocCount(id) == Len(tasks[id].documents)

\* TaskDocument.countDocuments({ taskId: task._id })
currentDocCount(id) == Cardinality(DocsOfTask(id))

\* the step at which the update handler ends
UpdateOutcome(p, id, b, files) ==
  IF upload(files) # NoError THEN "upload_error"
  ELSE IF ~UpdateValid(id, b) THEN "invalid"
  ELSE IF ~TaskExists(id) THEN "not_found"
  ELSE IF ~CanUpdate(p, tasks[id]) THEN "denied"
  ELSE IF b.assignedTo # "null" /\ AssigneeMissing(b.assignedTo)
    THEN "no_assignee"
  ELSE IF ~TaskValid(UpdatedTask(tasks[id], b)) THEN "task_save_failed"
  ELSE IF Len(files) > 0
          /\ currentDocCount(id) + Len(files) > MaxDocuments
    THEN "too_many_documents"
  ELSE IF Len(SavedFiles(files)) # Len(files) THEN "document_save_failed"
  ELSE "updated"

UpdateTask(p, id, b, files) ==
  LET out == UpdateOutcome(p, id, b, files)
      n == Len(SavedFiles(files))
      fieldsSaved == out \in {"too_many_documents", "document_save_failed", "updated"}
      docsSaved == out \in {"document_save_failed", "updated"}
      t == UpdatedTask(tasks[id], b)
      \* the events the handler goes on to emit
      events == IF out = "updated"
                  THEN UpdateEvents(id, OldAssignedTo(tasks[id]), NewAssignedTo(t))
                  ELSE <<>>
  IN
  /\ p \in Principals
  /\ docsSaved => nextDoc + n - 1 <= MaxDocs
  /\ req' = Request("updateTask", p, id, 0, b, files, EmptyQuery)
  /\ pre' = Snapshot(id)
  /\ res' = CASE out = "upload_error" -> ErrorHandler(upload(files))
              [] out = "invalid" -> Response(400, "Validation failed", <<>>)
              [] out = "not_found" -> Response(404, "Task not found", <<>>)
              [] out = "denied" -> Response(403, "Access denied", <<>>)
              [] out = "no_assignee" -> Response(400, "Assigned user not found", <<>>)
              [] out = "task_save_failed" -> Response(500, "Error updating task", <<>>)
              [] out = "too_many_documents" ->
                   Response(400, "Maximum 3 documents allowed per task", <<>>)
              [] out = "document_save_failed" ->
                   Response(500, "Error updating task", <<>>)
              [] out = "updated" ->
                   IF events # <<>> /\ ~ioUp
                     THEN Response(500, "Error updating task", <<>>)
                     ELSE Response(200, "Task updated successfully", <<id>>)
  /\ tasks' = IF ~fieldsSaved THEN tasks
              ELSE [tasks EXCEPT ![id] =
                      [t EXCEPT !.documents =
                         IF out = "updated" THEN @ \o NewDocIds(n) ELSE @]]
  /\ docs' = IF docsSaved THEN DocsAfterSave(id, p, n) ELSE docs
  /\ nextDoc' = IF docsSaved THEN nextDoc + n ELSE nextDoc
  /\ blobs' = IF docsSaved THEN BlobsAfterSave(n) ELSE blobs
  /\ emitted' = IF ioUp THEN events ELSE <<>>
  /\ UNCHANGED <<users, emails, nextTask, ioUp, flight>>

(***************************************************************************)
(* DELETE /api/tasks/:id                                                   *)
(***************************************************************************)
\* the delete test widened to the assignee, as the update test is
CanDeleteAsUpdate(p, t) ==
  users[p] = "admin" \/ t.createdBy = p \/ t.assignedTo = p

\* the permission test of the delete handler
CanDelete(p, t) == users[p] = "admin" \/ t.createdBy = p

\* the handler answering success for a task that is not there
DeleteTaskResponseLenient(p, id) ==
  IF ~ValidPathId(id) THEN Response(400, "Validation failed", <<>>)
  ELSE IF ~TaskExists(id) THEN Response(200, "Task deleted successfully", <<>>)
  ELSE IF ~CanDelete(p, tasks[id]) THEN Response(403, "Access denied", <<>>)
  ELSE Response(200, "Task deleted successfully", <<>>)

DeleteTaskResponse(p, id) ==
  IF ~ValidPathId(id) THEN Response(400, "Validation failed", <<>>)
  ELSE IF ~TaskExists(id) THEN Response(404, "Task not found", <<>>)
  ELSE IF ~CanDelete(p, tasks[id]) THEN Response(403, "Access denied", <<>>)
  ELSE Response(200, "Task deleted successfully", <<>>)

\* the records deleted only where the file could be unlinked
DocsAfterDeleteUnlinkedOnly(id) ==
  [d \in DocIds |-> IF d \in DocsOfTask(id) /\ blobs[d] # "locked" THEN NoDoc
                    ELSE docs[d]]

\* TaskDocument.deleteMany({ taskId: task._id })
DocsAfterDelete(id) ==
  [d \in DocIds |-> IF d \in DocsOfTask(id) THEN NoDoc ELSE docs[d]]

DeleteTask(p, id) ==
  LET ok == DeleteTaskResponse(p, id).status = 200
  IN
  /\ p \in Principals
  /\ req' = Request("deleteTask", p, id, 0, EmptyBody, <<>>, EmptyQuery)
  /\ pre' = Snapshot(id)
  /\ res' = DeleteTaskResponse(p, id)
  /\ emitted' = <<>>
  /\ docs' = IF ok THEN DocsAfterDelete(id) ELSE docs
  /\ tasks' = IF ok THEN [tasks EXCEPT ![id] = NoTask] ELSE tasks
  /\ blobs' = IF ok THEN Unlinked(DocsOfTask(id)) ELSE blobs
  /\ UNCHANGED <<users, emails, nextTask, nextDoc, ioUp, flight>>

(***************************************************************************)
(* DELETE /api/tasks/:id/documents/:documentId                             *)
(***************************************************************************)
\* the removal test widened to the assignee of the task
CanRemoveDocumentAsView(p, t, d) ==
  users[p] = "admin" \/ t.createdBy = p \/ d.uploadedBy = p \/ t.assignedTo = p

\* the permission test of the document removal handler
CanRemoveDocument(p, t, d) ==
  users[p] = "admin" \/ t.createdBy = p \/ d.uploadedBy = p

RemoveDocumentResponse(p, id, docId) ==
  IF ~ValidPathId(id) \/ ~ValidPathId(docId)
    THEN Response(400, "Validation failed", <<>>)
  ELSE IF ~TaskExists(id) THEN Response(404, "Task not found", <<>>)
  ELSE IF docId \notin DocsOfTask(id) THEN Response(404, "Document not found", <<>>)
  ELSE IF ~CanRemoveDocument(p, tasks[id], docs[docId])
    THEN Response(403, "Access denied", <<>>)
  ELSE Response(200, "Document deleted successfully", <<>>)

RemoveDocument(p, id, docId) ==
  LET ok == RemoveDocumentResponse(p, id, docId).status = 200
  IN
  /\ p \in Principals
  /\ req' = Request("removeDocument", p, id, docId, EmptyBody, <<>>, EmptyQuery)
  /\ pre' = Snapshot(id)
  /\ res' = RemoveDocumentResponse(p, id, docId)
  /\ emitted' = <<>>
  /\ tasks' = IF ok
                THEN [tasks EXCEPT ![id].documents =
                        SelectSeq(@, LAMBDA x : x # docId)]
                ELSE tasks
  /\ docs' = IF ok THEN [docs EXCEPT ![docId] = NoDoc] ELSE docs
  /\ blobs' = IF ok THEN Unlinked({docId}) ELSE blobs
  /\ UNCHANGED <<users, emails, nextTask, nextDoc, ioUp, flight>>

(***************************************************************************)
(* GET /api/tasks/:id/documents/:documentId/download and .../view          *)
(***************************************************************************)
FetchModes == {"downloadDocument", "viewDocument"}

\* the access test with its assignee clause left out
CanFetchCreatorOnly(p, t) == users[p] = "admin" \/ t.createdBy = p

\* the access test of both handlers, on the task as stored (not populated)
CanFetch(p, t) ==
  \/ users[p] = "admin"
  \/ (t.assignedTo # NoUser /\ t.assignedTo = p)
  \/ t.createdBy = p

FetchDocumentResponse(p, id, docId) ==
  IF ~ValidPathId(id) \/ ~ValidPathId(docId)
    THEN Response(400, "Validation failed", <<>>)
  ELSE IF ~TaskExists(id) THEN Response(404, "Task not found", <<>>)
  ELSE IF ~CanFetch(p, tasks[id]) THEN Response(403, "Access denied", <<>>)
  ELSE IF docId \notin DocsOfTask(id) THEN Response(404, "Document not found", <<>>)
  ELSE IF blobs[docId] = "absent" THEN Response(404, "File not found on server", <<>>)
  ELSE Response(200, "file", <<docId>>)

FetchDocument(mode, p, id, docId) ==
  /\ p \in Principals
  /\ mode \in FetchModes
  /\ req' = Request(mode, p, id, docId, EmptyBody, <<>>, EmptyQuery)
  /\ pre' = Snapshot(id)
  /\ res' = FetchDocumentResponse(p, id, docId)
  /\ emitted' = <<>>
  /\ UNCHANGED <<store, ioUp, flight>>

(***************************************************************************)
(* The environment of the handlers: the upload directory and the socket    *)
(* server.                                                                 *)
(***************************************************************************)
\* the file of a document disappears from the upload directory
LoseBlob(d) ==
  /\ blobs[d] = "present"
  /\ blobs' = [blobs EXCEPT ![d] = "absent"]
  /\ req' = NoRequest
  /\ UNCHANGED <<users, emails, tasks, docs, nextTask, nextDoc, res, emitted,
               pre, ioUp, flight>>

\* the file of a document becomes one that fs.unlink cannot remove
LockBlob(d) ==
  /\ blobs[d] = "present"
  /\ blobs' = [blobs EXCEPT ![d] = "locked"]
  /\ req' = NoRequest
  /\ UNCHANGED <<users, emails, tasks, docs, nextTask, nextDoc, res, emitted,
               pre, ioUp, flight>>

\* io.to(room).emit(...) starts to raise an error
IoDown ==
  /\ ioUp
  /\ ioUp' = FALSE
  /\ req' = NoRequest
  /\ UNCHANGED <<store, res, emitted, pre, flight>>

(***************************************************************************)
(* DELETE /api/users/:id                                                   *)
(***************************************************************************)
\* the adminAuth middleware of the route lets only admins through
adminAuth(p) == users[p] = "admin"

\* the handler without its test for the requester's own identifier
DeleteUserResponseNoSelfTest(p, u) ==
  IF ~adminAuth(p) THEN Response(403, "Access denied", <<>>)
  ELSE IF ~UserExists(u) THEN Response(404, "User not found", <<>>)
  ELSE Response(200, "User deleted successfully", <<>>)

DeleteUserResponse(p, u) ==
  IF ~adminAuth(p) THEN Response(403, "Access denied", <<>>)
  ELSE IF p = u THEN Response(400, "You cannot delete your own account", <<>>)
  ELSE IF ~UserExists(u) THEN Response(404, "User not found", <<>>)
  ELSE Response(200, "User deleted successfully", <<>>)

DeleteUser(p, u) ==
  /\ p \in Principals
  /\ req' = Request("deleteUser", p, 0, 0, [EmptyBody EXCEPT !.assignedTo = u],
                    <<>>, EmptyQuery)
  /\ pre' = Snapshot(0)
  /\ res' = DeleteUserResponse(p, u)
  /\ emitted' = <<>>
  /\ users' = IF DeleteUserResponse(p, u).status = 200
                THEN [users EXCEPT ![u] = "none"] ELSE users
  /\ UNCHANGED <<emails, tasks, docs, nextTask, nextDoc, blobs, ioUp, flight>>

(***************************************************************************)
(* POST /api/users, PUT /api/users/profile and PUT /api/users/:id          *)
(***************************************************************************)
\* the accounts in the users collection
Accounts == {u \in DOMAIN users : users[u] # "none"}

\* User.findById(id) finds an account
AccountExists(u) == u \in DOMAIN users /\ users[u] # "none"

Roles == {"user", "admin"}

\* isEmail()
IsEmail(e) == e \in {"a@x.io", "A@x.io", "b@x.io", "d@x.io"}

\* normalizeEmail(): the address in lower case
NormalizeEmail(e) == IF e = "A@x.io" THEN "a@x.io" ELSE e

\* the fields of a request on an account
UserBody(email, role, target) ==
  [email |-> email, role |-> role, target |-> target]

\* the validation chains of the three routes, after the required fields
UserBodyValid(b) ==
  /\ b.email = Absent \/ IsEmail(b.email)
  /\ b.role = Absent \/ b.role \in Roles

\* the lookup finds nobody, whatever the address
EmailNeverTaken(e, u) == FALSE

\* User.findOne({ email, _id: { $ne: user._id } })
EmailTaken(e, u) == \E v \in Accounts \ {u} : emails[v] = e

CreateUserResponse(p, b) ==
  IF ~adminAuth(p) THEN Response(403, "Access denied", <<>>)
  ELSE IF b.email = Absent \/ ~UserBodyValid(b)
    THEN Response(400, "Validation failed", <<>>)
  ELSE IF EmailTaken(NormalizeEmail(b.email), NoUser)
    THEN Response(400, "User with this email already exists", <<>>)
  ELSE Response(201, "User created successfully", <<>>)

CreateUser(p, b) ==
  LET n == CHOOSE u \in NewUserIds : users[u] = "none"
      ok == CreateUserResponse(p, b).status = 201
  IN
  /\ p \in Principals
  /\ \E u \in NewUserIds : users[u] = "none"
  /\ req' = Request("createUser", p, 0, 0, b, <<>>, EmptyQuery)
  /\ pre' = Snapshot(0)
  /\ res' = CreateUserResponse(p, b)
  /\ emitted' = <<>>
  /\ users' = IF ok
                THEN [users EXCEPT ![n] = IF b.role = Absent THEN "user"
                                          ELSE b.role]
                ELSE users
  /\ emails' = IF ok THEN [emails EXCEPT ![n] = NormalizeEmail(b.email)]
               ELSE emails
  /\ UNCHANGED <<tasks, docs, nextTask, nextDoc, blobs, ioUp, flight>>

\* if (email && email !== user.email) and the lookup that follows
EmailRefused(u, b) ==
  /\ b.email # Absent
  /\ NormalizeEmail(b.email) # emails[u]
  /\ EmailTaken(NormalizeEmail(b.email), u)

UpdateProfileResponse(p, b) ==
  IF ~UserBodyValid(b) THEN Response(400, "Validation failed", <<>>)
  ELSE IF ~AccountExists(p) THEN Response(404, "User not found", <<>>)
  ELSE IF EmailRefused(p, b) THEN Response(400, "Email already exists", <<>>)
  ELSE Response(200, "Profile updated successfully", <<>>)

UpdateProfile(p, b) ==
  LET ok == UpdateProfileResponse(p, b).status = 200
  IN
  /\ p \in Principals
  /\ req' = Request("updateProfile", p, 0, 0, b, <<>>, EmptyQuery)
  /\ pre' = Snapshot(0)
  /\ res' = UpdateProfileResponse(p, b)
  /\ emitted' = <<>>
  /\ emails' = IF ok /\ b.email # Absent
                 THEN [emails EXCEPT ![p] = NormalizeEmail(b.email)]
                 ELSE emails
  /\ UNCHANGED <<users, tasks, docs, nextTask, nextDoc, blobs, ioUp, flight>>

UpdateUserResponse(p, b) ==
  IF ~adminAuth(p) THEN Response(403, "Access denied", <<>>)
  ELSE IF ~UserBodyValid(b) THEN Response(400, "Validation failed", <<>>)
  ELSE IF ~AccountExists(b.target) THEN Response(404, "User not found", <<>>)
  ELSE IF EmailRefused(b.target, b)
    THEN Response(400, "Email already exists", <<>>)
  ELSE Response(200, "User updated successfully", <<>>)

UpdateUser(p, b) ==
  LET ok == UpdateUserResponse(p, b).status = 200
  IN
  /\ p \in Principals
  /\ req' = Request("updateUser", p, 0, 0, b, <<>>, EmptyQuery)
  /\ pre' = Snapshot(0)
  /\ res' = UpdateUserResponse(p, b)
  /\ emitted' = <<>>
  /\ emails' = IF ok /\ b.email # Absent
                 THEN [emails EXCEPT ![b.target] = NormalizeEmail(b.email)]
                 ELSE emails
  /\ users' = IF ok /\ b.role # Absent
                THEN [users EXCEPT ![b.target] = b.role]
                ELSE users
  /\ UNCHANGED <<tasks, docs, nextTask, nextDoc, blobs, ioUp, flight>>

(***************************************************************************)
(* Requests in flight.  A handler gives up control at every await, so the  *)
(* handlers of two requests interleave between their database and file     *)
(* system calls.  flight[pr] is the position of the request a connection   *)
(* pr is serving, with the documents the handler holds in memory.          *)
(***************************************************************************)
Procs == 1..MaxProcs

Idle == [op |-> "idle"]

Flying(pr) == flight[pr].op # "idle"

\* the request of connection pr after its handler loaded its documents
Loaded(op, pc, p, id, docId, files) ==
  [op |-> op, pc |-> pc,
   req |-> Request(op, p, id, docId, EmptyBody, files, EmptyQuery),
   pre |-> Snapshot(id),
   task |-> IF id \in TaskIds THEN tasks[id] ELSE NoTask,
   stale |-> FALSE, count |-> 0]

\* the version key of task id moved: every other handler that loaded the
\* task holds an outdated __v
Staled(pr, id) ==
  [q \in Procs |->
     IF q # pr /\ Flying(q) /\ flight[q].req.id = id
       THEN [flight[q] EXCEPT !.stale = TRUE]
       ELSE flight[q]]

\* the handler of connection pr answers
Answer(pr, response, events) ==
  /\ req' = flight[pr].req
  /\ pre' = flight[pr].pre
  /\ res' = response
  /\ emitted' = events

\* a handler answers before its first write
Refuse(op, p, id, docId, files, response) ==
  /\ req' = Request(op, p, id, docId, EmptyBody, files, EmptyQuery)
  /\ pre' = Snapshot(id)
  /\ res' = response
  /\ emitted' = <<>>
  /\ UNCHANGED <<store, ioUp, flight>>

(***************************************************************************)
(* DELETE /api/tasks/:id/documents/:documentId, await by await             *)
(***************************************************************************)
\* validation, Task.findById, TaskDocument.findOne and the permission test
BeginRemoveDocument(pr, p, id, docId) ==
  /\ ~Flying(pr)
  /\ p \in Principals
  /\ IF RemoveDocumentResponse(p, id, docId).status # 200
       THEN Refuse("removeDocument", p, id, docId, <<>>,
                   RemoveDocumentResponse(p, id, docId))
       ELSE /\ flight' = [flight EXCEPT ![pr] =
                 Loaded("removeDocument", "unlink", p, id, docId, <<>>)]
            /\ req' = NoRequest
            /\ UNCHANGED <<store, res, emitted, pre, ioUp>>

\* await fs.unlink(document.filePath), inside its own try/catch
RemoveDocumentUnlink(pr) ==
  /\ Flying(pr)
  /\ flight[pr].op = "removeDocument" /\ flight[pr].pc = "unlink"
  /\ blobs' = Unlinked({flight[pr].req.docId})
  /\ flight' = [flight EXCEPT ![pr].pc = "save"]
  /\ req' = NoRequest
  /\ UNCHANGED <<users, emails, tasks, docs, nextTask, nextDoc, res, emitted, pre,
               ioUp>>

\* task.documents = task.documents.filter(...); await task.save(): the
\* array is set as a whole, which mongoose guards with the version key
RemoveDocumentSave(pr) ==
  LET f == flight[pr]
      id == f.req.id
      kept == SelectSeq(f.task.documents, LAMBDA x : x # f.req.docId)
  IN
  /\ Flying(pr)
  /\ f.op = "removeDocument" /\ f.pc = "save"
  /\ IF ~tasks[id].exists \/ (f.stale /\ kept # f.task.documents)
       THEN /\ Answer(pr, Response(500, "Error deleting document", <<>>), <<>>)
            /\ flight' = [flight EXCEPT ![pr] = Idle]
            /\ UNCHANGED <<store, ioUp>>
       ELSE /\ tasks' = IF kept # f.task.documents
                          THEN [tasks EXCEPT ![id].documents = kept]
                          ELSE tasks
            /\ flight' = IF kept # f.task.documents
                           THEN [Staled(pr, id) EXCEPT ![pr].pc = "delete"]
                           ELSE [flight EXCEPT ![pr].pc = "delete"]
            /\ req' = NoRequest
            /\ UNCHANGED <<users, emails, docs, nextTask, nextDoc, blobs, res,
                         emitted, pre, ioUp>>

\* await TaskDocument.findByIdAndDelete(document._id) and the answer
RemoveDocumentDelete(pr) ==
  /\ Flying(pr)
  /\ flight[pr].op = "removeDocument" /\ flight[pr].pc = "delete"
  /\ docs' = [docs EXCEPT ![flight[pr].req.docId] = NoDoc]
  /\ Answer(pr, Response(200, "Document deleted successfully", <<>>), <<>>)
  /\ flight' = [flight EXCEPT ![pr] = Idle]
  /\ UNCHANGED <<users, emails, tasks, nextTask, nextDoc, blobs, ioUp>>

(***************************************************************************)
(* DELETE /api/tasks/:id, await by await                                   *)
(***************************************************************************)
\* validation, Task.findById and the permission test
BeginDeleteTask(pr, p, id) ==
  /\ ~Flying(pr)
  /\ p \in Principals
  /\ IF DeleteTaskResponse(p, id).status # 200
       THEN Refuse("deleteTask", p, id, 0, <<>>, DeleteTaskResponse(p, id))
       ELSE /\ flight' = [flight EXCEPT ![pr] =
                 Loaded("deleteTask", "unlink", p, id, 0, <<>>)]
            /\ req' = NoRequest
            /\ UNCHANGED <<store, res, emitted, pre, ioUp>>

\* TaskDocument.find({ taskId }) and fs.unlink of each file found
DeleteTaskUnlink(pr) ==
  /\ Flying(pr)
  /\ flight[pr].op = "deleteTask" /\ flight[pr].pc = "unlink"
  /\ blobs' = Unlinked(DocsOfTask(flight[pr].req.id))
  /\ flight' = [flight EXCEPT ![pr].pc = "records"]
  /\ req' = NoRequest
  /\ UNCHANGED <<users, emails, tasks, docs, nextTask, nextDoc, res, emitted, pre,
               ioUp>>

\* TaskDocument.deleteMany({ taskId }), Task.findByIdAndDelete, the answer
DeleteTaskRecords(pr) ==
  /\ Flying(pr)
  /\ flight[pr].op = "deleteTask" /\ flight[pr].pc = "records"
  /\ docs' = DocsAfterDelete(flight[pr].req.id)
  /\ tasks' = [tasks EXCEPT ![flight[pr].req.id] = NoTask]
  /\ Answer(pr, Response(200, "Task deleted successfully", <<>>), <<>>)
  /\ flight' = [flight EXCEPT ![pr] = Idle]
  /\ UNCHANGED <<users, emails, nextTask, nextDoc, blobs, ioUp>>

(***************************************************************************)
(* PUT /api/tasks/:id with files, await by await                           *)
(***************************************************************************)
\* the outcomes at which the handler answers before it counts documents
EarlyOutcomes ==
  {"upload_error", "invalid", "not_found", "denied", "no_assignee",
   "task_save_failed"}

EarlyResponse(out, files) ==
  CASE out = "upload_error" -> ErrorHandler(upload(files))
    [] out = "invalid" -> Response(400, "Validation failed", <<>>)
    [] out = "not_found" -> Response(404, "Task not found", <<>>)
    [] out = "denied" -> Response(403, "Access denied", <<>>)
    [] out = "no_assignee" -> Response(400, "Assigned user not found", <<>>)
    [] OTHER -> Response(500, "Error updating task", <<>>)

\* upload, validation, Task.findById, the permission test, the lookup of
\* the assignee and the first task.save()
BeginUpdateTask(pr, p, id, b, files) ==
  LET out == UpdateOutcome(p, id, b, files)
  IN
  /\ ~Flying(pr)
  /\ p \in Principals
  /\ Len(files) > 0
  /\ IF out \in EarlyOutcomes
       THEN /\ req' = Request("updateTask", p, id, 0, b, files, EmptyQuery)
            /\ pre' = Snapshot(id)
            /\ res' = EarlyResponse(out, files)
            /\ emitted' = <<>>
            /\ UNCHANGED <<store, ioUp, flight>>
       ELSE /\ tasks' = [tasks EXCEPT ![id] = UpdatedTask(tasks[id], b)]
            /\ flight' = [flight EXCEPT ![pr] =
                 [Loaded("updateTask", "count", p, id, 0, files)
                    EXCEPT !.req.body = b,
                           !.task = UpdatedTask(tasks[id], b)]]
            /\ req' = NoRequest
            /\ UNCHANGED <<users, emails, docs, nextTask, nextDoc, blobs,
                         res, emitted, pre, ioUp>>

\* await TaskDocument.countDocuments({ taskId }) and the test against 3
UpdateTaskCount(pr) ==
  LET f == flight[pr]
      c == currentDocCount(f.req.id)
  IN
  /\ Flying(pr)
  /\ f.op = "updateTask" /\ f.pc = "count"
  /\ IF c + Len(f.req.files) > MaxDocuments
       THEN /\ Answer(pr, Response(400, "Maximum 3 documents allowed per task",
                                   <<>>), <<>>)
            /\ flight' = [flight EXCEPT ![pr] = Idle]
       ELSE /\ flight' = [flight EXCEPT ![pr].pc = "store", ![pr].count = c]
            /\ req' = NoRequest
            /\ UNCHANGED <<res, emitted, pre>>
  /\ UNCHANGED <<store, ioUp>>

\* the handler counts the documents once more before it stores its own
StoreWithinLimit(pr) ==
  currentDocCount(flight[pr].req.id) + Len(flight[pr].req.files)
    <= MaxDocuments

\* between its count and its writes the handler takes no lock and reads
\* nothing again
StoreAllowed(pr) == TRUE

\* Promise.all of document.save(), task.documents.push(...), task.save(),
\* the events and the answer
UpdateTaskStore(pr) ==
  LET f == flight[pr]
      id == f.req.id
      n == Len(SavedFiles(f.req.files))
      allSaved == n = Len(f.req.files)
      pushed == allSaved /\ tasks[id].exists
      events == IF pushed
                  THEN UpdateEvents(id, OldAssignedTo(f.pre.task),
                                    NewAssignedTo(f.task))
                  ELSE <<>>
  IN
  /\ Flying(pr)
  /\ f.op = "updateTask" /\ f.pc = "store"
  /\ IF ~StoreAllowed(pr)
       THEN /\ Answer(pr, Response(400, "Maximum 3 documents allowed per task",
                                   <<>>), <<>>)
            /\ flight' = [flight EXCEPT ![pr] = Idle]
            /\ UNCHANGED <<store, ioUp>>
       ELSE /\ nextDoc + n - 1 <= MaxDocs
            /\ docs' = DocsAfterSave(id, f.req.user, n)
            /\ blobs' = BlobsAfterSave(n)
            /\ nextDoc' = nextDoc + n
            /\ tasks' = IF pushed
                          THEN [tasks EXCEPT ![id].documents =
                                  @ \o NewDocIds(n)]
                          ELSE tasks
            /\ Answer(pr,
                      IF pushed /\ (events = <<>> \/ ioUp)
                        THEN Response(200, "Task updated successfully", <<id>>)
                        ELSE Response(500, "Error updating task", <<>>),
                      IF ioUp THEN events ELSE <<>>)
            /\ flight' = IF pushed
                           THEN [Staled(pr, id) EXCEPT ![pr] = Idle]
                           ELSE [flight EXCEPT ![pr] = Idle]
            /\ UNCHANGED <<users, emails, nextTask, ioUp>>

(***************************************************************************)
(* DELETE /api/users/:id, await by await                                   *)
(***************************************************************************)
\* auth, adminAuth, validation and the test for the requester's own id
BeginDeleteUser(pr, p, u) ==
  /\ ~Flying(pr)
  /\ p \in Principals
  /\ IF ~adminAuth(p) \/ p = u
       THEN /\ req' = Request("deleteUser", p, 0, 0,
                              [EmptyBody EXCEPT !.assignedTo = u], <<>>,
                              EmptyQuery)
            /\ pre' = Snapshot(0)
            /\ res' = DeleteUserResponse(p, u)
            /\ emitted' = <<>>
            /\ UNCHANGED <<store, ioUp, flight>>
       ELSE /\ flight' = [flight EXCEPT ![pr] =
                 [Loaded("deleteUser", "find", p, 0, 0, <<>>)
                    EXCEPT !.req.body.assignedTo = u]]
            /\ req' = NoRequest
            /\ UNCHANGED <<store, res, emitted, pre, ioUp>>

\* const user = await User.findById(req.params.id)
DeleteUserFind(pr) ==
  /\ Flying(pr)
  /\ flight[pr].op = "deleteUser" /\ flight[pr].pc = "find"
  /\ IF ~AccountExists(flight[pr].req.body.assignedTo)
       THEN /\ Answer(pr, Response(404, "User not found", <<>>), <<>>)
            /\ flight' = [flight EXCEPT ![pr] = Idle]
       ELSE /\ flight' = [flight EXCEPT ![pr].pc = "delete"]
            /\ req' = NoRequest
            /\ UNCHANGED <<res, emitted, pre>>
  /\ UNCHANGED <<store, ioUp>>

\* await User.findByIdAndDelete(req.params.id) and the answer
DeleteUserDelete(pr) ==
  /\ Flying(pr)
  /\ flight[pr].op = "deleteUser" /\ flight[pr].pc = "delete"
  /\ users' = [users EXCEPT ![flight[pr].req.body.assignedTo] = "none"]
  /\ Answer(pr, Response(200, "User deleted successfully", <<>>), <<>>)
  /\ flight' = [flight EXCEPT ![pr] = Idle]
  /\ UNCHANGED <<emails, tasks, docs, nextTask, nextDoc, blobs, ioUp>>

Init ==
  /\ users = [u \in UserIds \cup NewUserIds |->
                IF u = "u1" THEN "admin"
                ELSE IF u \in UserIds THEN "user" ELSE "none"]
  /\ emails = [u \in UserIds \cup NewUserIds |->
                 CASE u = "u1" -> "a@x.io" [] u = "u2" -> "b@x.io"
                   [] u = "u3" -> "c@x.io" [] OTHER -> "none"]
  /\ tasks = [t \in TaskIds |-> NoTask]
  /\ docs = [d \in DocIds |-> NoDoc]
  /\ nextTask = 1
  /\ nextDoc = 1
  /\ req = NoRequest
  /\ res = Response(0, "none", <<>>)
  /\ emitted = <<>>
  /\ blobs = [d \in DocIds |-> "absent"]
  /\ ioUp = TRUE
  /\ flight = [pr \in Procs |-> Idle]
  /\ pre = [task |-> NoTask, docs |-> {}, nextTask |-> 1, nextDoc |-> 1,
            blobs |-> [d \in DocIds |-> "absent"],
            records |-> [d \in DocIds |-> NoDoc]]

(***************************************************************************)
(* Requests of the model.                                                  *)
(***************************************************************************)
Body(title, description, status, priority, dueDate, assignedTo, createdBy) ==
  [title |-> title, description |-> description, status |-> status,
   priority |-> priority, dueDate |-> dueDate, assignedTo |-> assignedTo,
   createdBy |-> createdBy]

\* a body that only names an assignee
AssignBody(a) == [EmptyBody EXCEPT !.assignedTo = a]
\* a create body with a title and an assignee
TitledBody(a) == [EmptyBody EXCEPT !.title = "Fix bug", !.assignedTo = a]

\* n PDF files
PdfBatch(n) == [i \in 1..n |-> PdfFile]

(***************************************************************************)
(* Access control: who may read, update and delete a task.                 *)
(***************************************************************************)
AccessCreateBodies == {TitledBody(a) : a \in {Absent} \cup UserIds}
AccessUpdateBodies == {EmptyBody, AssignBody("u3")}

NextAccess ==
  \/ \E p \in UserIds, id \in PathIds : GetTask(p, id)
  \/ \E p \in UserIds, b \in AccessCreateBodies : CreateTask(p, b, PdfBatch(1))
  \/ \E p \in UserIds, id \in PathIds, b \in AccessUpdateBodies :
       UpdateTask(p, id, b, <<>>)
  \/ \E p \in UserIds, id \in PathIds : DeleteTask(p, id)
  \/ \E p \in UserIds, u \in UserIds : DeleteUser(p, u)

SpecAccess == Init /\ [][NextAccess]_vars

(***************************************************************************)
(* Documents: creates and updates carrying files, document removal.        *)
(***************************************************************************)
DocsCreateFiles ==
  {PdfBatch(n) : n \in {0, MaxDocuments, MaxFiles}}
  \cup {<<PdfFile, JpegFile>>, <<PdfFile, PdfFile, EmptyPdfFile>>}
DocsUpdateFiles == {PdfBatch(n) : n \in {1, 2, MaxFiles}} \cup {<<JpegFile>>}
DocsUpdateBodies == {EmptyBody, [EmptyBody EXCEPT !.status = "completed"]}

NextDocs ==
  \/ \E f \in DocsCreateFiles : CreateTask("u2", TitledBody("u3"), f)
  \/ \E id \in TaskIds, b \in DocsUpdateBodies, f \in DocsUpdateFiles :
         UpdateTask("u3", id, b, f)
  \/ \E id \in TaskIds, d \in DocIds : RemoveDocument("u2", id, d)

SpecDocs == Init /\ [][NextDocs]_vars

(***************************************************************************)
(* Fields: assignees that resolve or not, payloads naming a creator.       *)
(***************************************************************************)
FieldsCreateBodies ==
  {TitledBody(a) : a \in {Absent, "u2", "u3", "U2", GhostUser}}
  \cup {[TitledBody("u2") EXCEPT !.createdBy = "u3"]}
FieldsUpdateBodies ==
  {AssignBody(GhostUser), AssignBody("u3"),
   [EmptyBody EXCEPT !.status = "completed", !.createdBy = "u3"]}

NextFields ==
  \/ \E p \in UserIds, b \in FieldsCreateBodies : CreateTask(p, b, <<>>)
  \/ \E p \in UserIds, id \in TaskIds, b \in FieldsUpdateBodies :
         UpdateTask(p, id, b, <<>>)
  \/ DeleteUser("u1", "u3")

SpecFields == Init /\ [][NextFields]_vars

(***************************************************************************)
(* Removal: tasks and documents deleted while files are missing or cannot  *)
(* be unlinked.                                                            *)
(***************************************************************************)
NextRemoval ==
  \/ CreateTask("u2", TitledBody("u3"), PdfBatch(1))
  \/ \E id \in TaskIds : UpdateTask("u3", id, EmptyBody, PdfBatch(1))
  \/ \E p \in UserIds, id \in TaskIds : DeleteTask(p, id)
  \/ \E p \in UserIds, id \in TaskIds, d \in DocIds : RemoveDocument(p, id, d)
  \/ \E id \in TaskIds : GetTask("u1", id)
  \/ \E d \in DocIds : LockBlob(d)

SpecRemoval == Init /\ [][NextRemoval]_vars

(***************************************************************************)
(* Fetching: documents downloaded and viewed, files that went missing.     *)
(***************************************************************************)
FetchCreateBodies == {TitledBody("u3"), TitledBody(Absent)}

NextFetch ==
  \/ \E b \in FetchCreateBodies : CreateTask("u2", b, PdfBatch(1))
  \/ \E mode \in FetchModes, p \in UserIds, id \in TaskIds, d \in DocIds :
         FetchDocument(mode, p, id, d)
  \/ \E id \in TaskIds, d \in DocIds : RemoveDocument("u2", id, d)
  \/ \E d \in DocIds : LoseBlob(d)

SpecFetch == Init /\ [][NextFetch]_vars

(***************************************************************************)
(* Notification: creates and updates while the socket server may fail.     *)
(***************************************************************************)
NotifyCreateBodies == {TitledBody(a) : a \in {Absent, "u2", "u3"}}
NotifyUpdateBodies ==
  {EmptyBody, AssignBody("u3"), [EmptyBody EXCEPT !.status = "completed"]}

NextNotify ==
  \/ \E p \in UserIds, b \in NotifyCreateBodies : CreateTask(p, b, <<>>)
  \/ \E p \in UserIds, id \in TaskIds, b \in NotifyUpdateBodies :
         UpdateTask(p, id, b, <<>>)
  \/ IoDown

SpecNotify == Init /\ [][NextNotify]_vars

(***************************************************************************)
(* Listing: tasks of two kinds, queries combining every filter.            *)
(***************************************************************************)
ListCreateBodies ==
  {TitledBody(a) : a \in {Absent, "u3"}}
  \cup {Body("Plan trip", "fix later", "completed", "high", FutureDate, a, Absent) :
          a \in {Absent, "u3"}}

ListQuery(search, state, assignedTo, createdBy, range) ==
  [EmptyQuery EXCEPT !.search = search,
                     !.status = state[1], !.priority = state[2],
                     !.assignedTo = assignedTo, !.createdBy = createdBy,
                     !.dueDateFrom = range[1], !.dueDateTo = range[2]]

Queries ==
  {ListQuery(s, st, a, c, r) :
     s \in {Absent, "fix"},
     st \in {<<Absent, Absent>>, <<"completed", "high">>},
     a \in {Absent, "u2", "u3"},
     c \in {Absent, "u2"},
     r \in {<<Absent, Absent>>, <<PastDate, FutureDate>>}}
  \cup {[EmptyQuery EXCEPT !.status = "pending"],
        [EmptyQuery EXCEPT !.priority = "medium"],
        [EmptyQuery EXCEPT !.search = "plan"],
        [EmptyQuery EXCEPT !.dueDateFrom = FutureDate],
        [EmptyQuery EXCEPT !.dueDateTo = PastDate],
        [EmptyQuery EXCEPT !.assignedTo = "not-an-id"],
        [EmptyQuery EXCEPT !.createdBy = "U2"],
        [EmptyQuery EXCEPT !.sortOrder = "asc", !.limit = 1],
        [EmptyQuery EXCEPT !.page = 2, !.limit = 1]}

NextList ==
  \/ \E p \in UserIds, b \in ListCreateBodies : CreateTask(p, b, <<>>)
  \/ \E p \in UserIds, q \in Queries : ListTasks(p, q)

SpecList == Init /\ [][NextList]_vars

\* the relations of the principal of the last request to the task it addressed
IsAdmin == users[req.user] = "admin"
IsCreator == pre.task.exists /\ pre.task.createdBy = req.user
IsAssignee == pre.task.exists /\ pre.task.assignedTo = req.user

\* the request left the addressed task, its document records and the
\* notification channel as they were
TaskUntouched ==
  /\ req.id \in TaskIds => tasks[req.id] = pre.task
  /\ DocsOfTask(req.id) = pre.docs
  /\ nextDoc = pre.nextDoc
  /\ emitted = <<>>

\* the multipart part and the validators of the last create/update passed
WellFormed ==
  /\ upload(req.files) = NoError
  /\ IF req.op = "createTask" THEN CreateValid(req.body)
     ELSE UpdateValid(req.id, req.body)

(***************************************************************************)
(* C1.  GET /tasks/{id} on an existing task answers 200 with the task iff  *)
(* the principal is admin, creator or assignee, and 403 without task data  *)
(* in every other case.                                                    *)
(***************************************************************************)
C1_GetTaskViewRule ==
  (req.op = "getTask" /\ pre.task.exists) =>
     IF IsAdmin \/ IsCreator \/ IsAssignee
       THEN res.status = 200 /\ res.data = <<req.id>>
       ELSE res.status = 403 /\ res.data = <<>>

(***************************************************************************)
(* C3.  PUT /tasks/{id} on an existing task is refused with 403 iff the    *)
(* principal is neither admin, creator nor assignee (so a task without     *)
(* assignee is updatable by creator and admin only); a refused principal   *)
(* leaves the task record, its documents and the channel unchanged.        *)
(***************************************************************************)
C3_UpdatePermission ==
  (req.op = "updateTask" /\ pre.task.exists) =>
     LET may == IsAdmin \/ IsCreator \/ IsAssignee
     IN /\ WellFormed => (res.status = 403 <=> ~may)
        /\ ~may => (res.status # 200 /\ TaskUntouched)
        /\ (pre.task.assignedTo = NoUser /\ res.status = 200)
             => (IsAdmin \/ IsCreator)

\* an outsider was refused on a task that has a document and no assignee
C3_Witness ==
  /\ req.op = "updateTask" /\ pre.task.exists
  /\ res.status = 403
  /\ pre.task.assignedTo = NoUser
  /\ pre.docs # {}
  /\ req.body.assignedTo = "u3"

(***************************************************************************)
(* C4.  DELETE /tasks/{id} on an existing task succeeds iff the principal  *)
(* is admin or creator; an assignee who is not the creator, although able  *)
(* to view and update the task, gets 403, and after a refused delete the   *)
(* task and all its documents still exist.                                 *)
(***************************************************************************)
C4_DeletePermission ==
  (req.op = "deleteTask" /\ pre.task.exists) =>
     LET may == IsAdmin \/ IsCreator
     IN /\ res.status = 200 <=> may
        /\ res.status = 200 => ~TaskExists(req.id)
        /\ ~may => /\ res.status = 403
                   /\ TaskUntouched
                   /\ Range(tasks[req.id].documents) \subseteq DocsOfTask(req.id)
        /\ (~may /\ IsAssignee) =>
              /\ GetTaskResponse(req.user, req.id).status = 200
              /\ CanUpdate(req.user, tasks[req.id])

\* the assignee of a task with a document was refused
C4_Witness ==
  /\ req.op = "deleteTask" /\ pre.task.exists
  /\ IsAssignee /\ ~IsCreator /\ ~IsAdmin
  /\ res.status = 403
  /\ pre.docs # {}

(***************************************************************************)
(* C2.  Every task in the list returned to a non-admin principal is        *)
(* created by or assigned to that principal, whatever filters the query    *)
(* combines; the list of an admin is not restricted by creator or          *)
(* assignee: it holds each task that passes the filters.                   *)
(***************************************************************************)
C2_ListVisibility ==
  (req.op = "listTasks" /\ res.status = 200) =>
     LET p == req.user
         q == req.query
         \* the filters alone, read off the stored task
         passes(t) ==
           /\ q.search # Absent =>
                (RegexMatch(q.search, t.title) \/ RegexMatch(q.search, t.description))
           /\ q.status # Absent => t.status = q.status
           /\ q.priority # Absent => t.priority = q.priority
           /\ q.assignedTo # Absent => t.assignedTo = ToObjectId(q.assignedTo)
           /\ q.createdBy # Absent => t.createdBy = ToObjectId(q.createdBy)
           /\ q.dueDateFrom # Absent =>
                (t.dueDate # NoDate /\ DateGte(t.dueDate, q.dueDateFrom))
           /\ q.dueDateTo # Absent =>
                (t.dueDate # NoDate /\ DateLte(t.dueDate, q.dueDateTo))
         own(t) == t.createdBy = p \/ t.assignedTo = p
         whole == q.page = 1 /\ q.limit >= MaxTasks
     IN /\ \A id \in Range(res.data) : TaskExists(id) /\ passes(tasks[id])
        /\ users[p] # "admin" => \A id \in Range(res.data) : own(tasks[id])
        /\ (users[p] # "admin" /\ whole) =>
             Range(res.data) = {id \in TaskIds : tasks[id].exists /\ own(tasks[id])
                                                  /\ passes(tasks[id])}
        /\ (users[p] = "admin" /\ whole) =>
             Range(res.data) = {id \in TaskIds : tasks[id].exists /\ passes(tasks[id])}

\* a non-admin filtered on another user's identifier and on every other
\* field, got a task back, and a task it may not see stayed out
C2_Witness ==
  /\ req.op = "listTasks" /\ res.status = 200
  /\ users[req.user] # "admin"
  /\ req.query.createdBy \notin {Absent, req.user}
  /\ req.query.search # Absent /\ req.query.status # Absent
  /\ req.query.dueDateFrom # Absent
  /\ res.data # <<>>
  /\ \E id \in TaskIds : tasks[id].exists /\ id \notin Range(res.data)

\* every file of the last request declares the PDF type
AllPdf == \A i \in 1..Len(req.files) : req.files[i].mimetype = "application/pdf"

\* the last update, taken without its files, is one the handler carries out
UpdateAcceptable ==
  /\ UpdateValid(req.id, req.body)
  /\ pre.task.exists
  /\ IsAdmin \/ IsCreator \/ IsAssignee
  /\ req.body.assignedTo = Absent \/ UserExists(ToObjectId(req.body.assignedTo))
  /\ TaskValid(UpdatedTask(pre.task, req.body))

C6_OverLimitUpdateRejected ==
  (req.op = "updateTask" /\ pre.task.exists /\ AllPdf /\ UpdateAcceptable
     /\ Len(req.files) \in 1..MaxDocuments
     /\ Cardinality(pre.docs) + Len(req.files) > MaxDocuments) =>
       /\ res.status = 400
       /\ DocsOfTask(req.id) = pre.docs
       /\ tasks[req.id] = pre.task

(***************************************************************************)
(* C7.  A create or update that attaches a file whose declared type is not *)
(* application/pdf is answered with status 400; no file of the batch is    *)
(* attached, the document list of the task is unchanged and, on create, no *)
(* task is stored.                                                         *)
(***************************************************************************)
C7_NonPdfRejected ==
  (req.op \in {"createTask", "updateTask"} /\ ~AllPdf
     /\ Len(req.files) <= MaxDocuments) =>
       /\ res.status = 400
       /\ DocsOfTask(req.id) = pre.docs /\ nextDoc = pre.nextDoc
       /\ nextTask = pre.nextTask
       /\ req.id \in TaskIds => tasks[req.id] = pre.task

(***************************************************************************)
(* C8.  A task is stored with createdBy equal to the principal that sent   *)
(* the create request, whatever createdBy the payload names, and no later  *)
(* request changes the createdBy of a stored task: an update keeps it even *)
(* when its payload names another creator.                                 *)
(***************************************************************************)
C8_CreatedByForcedAndImmutable ==
  /\ [](req.op = "createTask" /\ nextTask # pre.nextTask
          => tasks[pre.nextTask].createdBy = req.user)
  /\ [](req.op = "updateTask" /\ pre.task.exists
          => tasks[req.id].createdBy = pre.task.createdBy)
  /\ [][\A id \in TaskIds :
          tasks[id].exists =>
            tasks'[id].exists /\ tasks'[id].createdBy = tasks[id].createdBy]_vars

\* an update naming another creator succeeded on a task whose creator is
\* neither the sender nor the one named
C8_Witness ==
  /\ req.op = "updateTask" /\ res.status = 200
  /\ req.body.createdBy = "u3"
  /\ tasks[req.id].createdBy = "u2"
  /\ req.user = "u1"
  /\ tasks[req.id].status = "completed" /\ pre.task.status = "pending"

\* the assignedTo of the last request, as a user identifier
SuppliedAssignee == ToObjectId(req.body.assignedTo)

(***************************************************************************)
(* C9 as stated.  Any principal may create a task assigned to any existing *)
(* principal, itself included (201); when assignedTo does not resolve to   *)
(* an existing principal, a create and an update of an existing task are   *)
(* answered 400 'Assigned user not found', never 403, nothing is created   *)
(* or modified and nothing is emitted.                                     *)
(***************************************************************************)
C9_UnresolvedAssigneeNever403 ==
  /\ (req.op = "createTask" /\ WellFormed /\ req.body.assignedTo # Absent) =>
        IF UserExists(SuppliedAssignee)
          THEN TaskValid(NewTask(req.user, req.body)) => res.status = 201
          ELSE /\ res.status = 400 /\ res.message = "Assigned user not found"
               /\ nextTask = pre.nextTask /\ emitted = <<>>
  /\ (req.op = "updateTask" /\ WellFormed /\ pre.task.exists
        /\ req.body.assignedTo # Absent /\ ~UserExists(SuppliedAssignee)) =>
        /\ res.status = 400 /\ res.message = "Assigned user not found"
        /\ TaskUntouched

(***************************************************************************)
(* C9 amended.  Any principal may create a task assigned to any existing   *)
(* principal, itself included (201); when assignedTo does not resolve to   *)
(* an existing principal, a create, and an update by a principal permitted *)
(* to update the task, are answered 400 'Assigned user not found', nothing *)
(* is created or modified and nothing is emitted; an update by any other   *)
(* principal is answered 403 and changes nothing either.                   *)
(***************************************************************************)
C9_AssigneeResolution ==
  /\ (req.op = "createTask" /\ WellFormed /\ req.body.assignedTo # Absent) =>
        IF UserExists(SuppliedAssignee)
          THEN TaskValid(NewTask(req.user, req.body)) => res.status = 201
          ELSE /\ res.status = 400 /\ res.message = "Assigned user not found"
               /\ nextTask = pre.nextTask /\ emitted = <<>>
  /\ (req.op = "updateTask" /\ WellFormed /\ pre.task.exists
        /\ req.body.assignedTo # Absent /\ ~UserExists(SuppliedAssignee)) =>
        /\ TaskUntouched
        /\ IF IsAdmin \/ IsCreator \/ IsAssignee
             THEN res.status = 400 /\ res.message = "Assigned user not found"
             ELSE res.status = 403

\* a non-admin creator tried to hand a task over to an account that had
\* been deleted
C9_Witness ==
  /\ req.op = "updateTask" /\ pre.task.exists
  /\ ~IsAdmin /\ IsCreator
  /\ req.body.assignedTo = "u3" /\ users["u3"] = "none"
  /\ res.status = 400 /\ res.message = "Assigned user not found"

(***************************************************************************)
(* C10.  A successful create emits exactly one taskAssigned event, to the  *)
(* room of the assignee, iff assignedTo was supplied, resolved and differs *)
(* from the creator; without assignee, or with the creator as assignee, it *)
(* emits nothing.                                                          *)
(***************************************************************************)
C10_CreateEmitsTaskAssigned ==
  (req.op = "createTask" /\ res.status = 201) =>
     IF /\ req.body.assignedTo # Absent
        /\ UserExists(SuppliedAssignee)
        /\ SuppliedAssignee # req.user
       THEN emitted = <<Event("taskAssigned", UserRoom(SuppliedAssignee),
                              pre.nextTask)>>
       ELSE emitted = <<>>

\* the events of the last request that carry the given name
EventsNamed(name) == SelectSeq(emitted, LAMBDA e : e.event = name)

\* the assignee of the addressed task after the last request
ResultingAssignee == tasks[req.id].assignedTo

(***************************************************************************)
(* C11.  A successful update emits taskAssigned, once and to the room of   *)
(* the new assignee, iff assignedTo changed to a present value that is     *)
(* neither the previous assignee nor the updater; otherwise, and so when   *)
(* the updater assigns the task to itself, it emits no taskAssigned.       *)
(***************************************************************************)
C11_UpdateEmitsTaskAssigned ==
  (req.op = "updateTask" /\ res.status = 200) =>
     IF /\ ResultingAssignee # NoUser
        /\ ResultingAssignee # pre.task.assignedTo
        /\ ResultingAssignee # req.user
       THEN EventsNamed("taskAssigned")
              = <<Event("taskAssigned", UserRoom(ResultingAssignee), req.id)>>
       ELSE EventsNamed("taskAssigned") = <<>>

(***************************************************************************)
(* C12.  A successful update of a task whose resulting assignedTo is       *)
(* present emits exactly one taskUpdated, to the room of that assignee,    *)
(* whatever changed and whoever updates; when the resulting assignedTo is  *)
(* absent it emits no taskUpdated.                                         *)
(***************************************************************************)
C12_UpdateEmitsTaskUpdated ==
  (req.op = "updateTask" /\ res.status = 200) =>
     IF ResultingAssignee # NoUser
       THEN EventsNamed("taskUpdated")
              = <<Event("taskUpdated", UserRoom(ResultingAssignee), req.id)>>
       ELSE EventsNamed("taskUpdated") = <<>>

(***************************************************************************)
(* C13.  An update that moves a task from one assignee to another, who is  *)
(* not the updater, emits exactly one taskAssigned and one taskUpdated to  *)
(* the room of the new assignee, and no event to the room of the previous  *)
(* assignee or of the creator.                                             *)
(***************************************************************************)
C13_ReassignmentEvents ==
  (req.op = "updateTask" /\ res.status = 200
     /\ pre.task.assignedTo # NoUser /\ ResultingAssignee # NoUser
     /\ ResultingAssignee # pre.task.assignedTo
     /\ ResultingAssignee # req.user) =>
       /\ EventsNamed("taskAssigned")
            = <<Event("taskAssigned", UserRoom(ResultingAssignee), req.id)>>
       /\ EventsNamed("taskUpdated")
            = <<Event("taskUpdated", UserRoom(ResultingAssignee), req.id)>>
       /\ \A i \in 1..Len(emitted) :
             /\ emitted[i].room # UserRoom(pre.task.assignedTo)
             /\ (pre.task.createdBy # ResultingAssignee
                   => emitted[i].room # UserRoom(pre.task.createdBy))

(***************************************************************************)
(* C14.  DELETE /tasks/{id} with a well-formed identifier that names no    *)
(* task, never created or already deleted, is answered 404 'Task not       *)
(* found' for every principal, changes no record of the store and emits    *)
(* nothing; so a second delete of a task is answered 404.                  *)
(***************************************************************************)
C14_DeleteMissingTask ==
  /\ [](req.op = "deleteTask" /\ ValidPathId(req.id) /\ ~pre.task.exists
          => /\ res.status = 404 /\ res.message = "Task not found"
             /\ emitted = <<>>
             /\ TaskUntouched /\ blobs = pre.blobs /\ nextTask = pre.nextTask)
  /\ [][(req'.op = "deleteTask" /\ ~pre'.task.exists) => UNCHANGED store]_vars

\* a task with a document was deleted, and a non-admin who then asked to
\* delete it was answered 404
C14_Witness ==
  /\ req.op = "deleteTask" /\ res.status = 404
  /\ users[req.user] # "admin"
  /\ req.id \in TaskIds /\ req.id < nextTask
  /\ \E d \in DocIds : d < nextDoc /\ ~docs[d].exists

(***************************************************************************)
(* C15.  After a delete answered 200 the task record and every document    *)
(* record of the task are gone, also when a file of the task could not be  *)
(* unlinked; they never come back, and every later GET, PUT or DELETE of   *)
(* that identifier, by an admin as by anyone, is answered 404.             *)
(***************************************************************************)
C15_DeleteCascade ==
  /\ [](req.op = "deleteTask" /\ res.status = 200
          => /\ ~TaskExists(req.id)
             /\ DocsOfTask(req.id) = {}
             /\ \A d \in pre.docs : ~docs[d].exists)
  /\ [](/\ req.op \in {"getTask", "updateTask", "deleteTask"}
         /\ req.id \in TaskIds /\ req.id < pre.nextTask /\ ~pre.task.exists
         /\ (req.op = "updateTask" => WellFormed)
          => res.status = 404 /\ res.message = "Task not found")
  /\ [][\A id \in TaskIds :
          (id < nextTask /\ ~tasks[id].exists)
            => (~tasks'[id].exists
                /\ \A d \in DocIds : ~(docs'[d].exists /\ docs'[d].taskId = id))]_vars

\* a task with two documents was deleted while one of its files could not
\* be unlinked
C15_Witness ==
  /\ req.op = "deleteTask" /\ res.status = 200
  /\ Cardinality(pre.docs) = 2
  /\ \E d \in pre.docs : blobs[d] = "locked"
  /\ \E d \in pre.docs : blobs[d] = "absent"

(***************************************************************************)
(* C16.  The removal of a document of an existing task is carried out iff  *)
(* the principal is admin, creator of the task or uploader of the          *)
(* document.  Anyone else, the assignee included, is answered 403 and the  *)
(* document records, the files and the task stay as they were.  A removal  *)
(* carried out deletes the record of that document and takes exactly its   *)
(* identifier out of task.documents; the other documents stay.             *)
(***************************************************************************)
C16_RemoveDocumentRule ==
  (req.op = "removeDocument" /\ pre.task.exists /\ req.docId \in pre.docs) =>
     LET may == \/ IsAdmin
                \/ IsCreator
                \/ pre.records[req.docId].uploadedBy = req.user
     IN /\ res.status = 200 <=> may
        /\ ~may => /\ res.status = 403
                   /\ docs = pre.records
                   /\ blobs = pre.blobs
                   /\ tasks[req.id] = pre.task
        /\ may => /\ ~docs[req.docId].exists
                  /\ \A d \in DocIds \ {req.docId} :
                        docs[d] = pre.records[d] /\ blobs[d] = pre.blobs[d]
                  /\ tasks[req.id] =
                       [pre.task EXCEPT !.documents =
                          SelectSeq(@, LAMBDA x : x # req.docId)]

\* the assignee asked to remove a document that the creator had uploaded
C16_Witness ==
  /\ req.op = "removeDocument" /\ pre.task.exists /\ req.docId \in pre.docs
  /\ IsAssignee /\ ~IsCreator /\ ~IsAdmin
  /\ pre.records[req.docId].uploadedBy # req.user
  /\ Cardinality(pre.docs) = 2
  /\ res.status = 403

(***************************************************************************)
(* C17.  The content of a document of an existing task is served, by       *)
(* download and by view alike, iff the principal is admin, creator or      *)
(* assignee of the task; anyone else is answered 403.  To a principal with *)
(* access, a document whose record exists but whose file is missing is     *)
(* answered 'File not found on server', and a document without record      *)
(* 'Document not found': two different answers.                            *)
(***************************************************************************)
C17_FetchDocumentRule ==
  (req.op \in FetchModes /\ pre.task.exists) =>
     LET may == IsAdmin \/ IsCreator \/ IsAssignee
         has == req.docId \in pre.docs
         missing == blobs[req.docId] = "absent"
     IN /\ (has /\ ~missing) => (res.status = 200 <=> may)
        /\ res.status = 200 => (may /\ has /\ ~missing /\ res.data = <<req.docId>>)
        /\ ~may => (res.status = 403 /\ res.data = <<>>)
        /\ (may /\ has /\ missing) =>
              (res.status = 404 /\ res.message = "File not found on server")
        /\ (may /\ ~has) =>
              (res.status = 404 /\ res.message = "Document not found")

\* the assignee asked to view a document whose file had gone missing
C17_Witness ==
  /\ req.op = "viewDocument" /\ pre.task.exists
  /\ IsAssignee /\ ~IsCreator /\ ~IsAdmin
  /\ req.docId \in pre.docs
  /\ res.message = "File not found on server"

\* the account the last DELETE /users/{id} named
TargetUser == req.body.assignedTo

(***************************************************************************)
(* C18 as stated.  A principal that asks to delete its own account is      *)
(* answered 'You cannot delete your own account' whatever its role, and    *)
(* its account still exists afterwards.                                    *)
(***************************************************************************)
C18_SelfDeletionAlwaysForbidden ==
  (req.op = "deleteUser" /\ TargetUser = req.user) =>
     /\ res.status = 400
     /\ res.message = "You cannot delete your own account"
     /\ UserExists(req.user)

(***************************************************************************)
(* C18 amended.  An admin that asks to delete its own account is answered  *)
(* 400 'You cannot delete your own account'; a principal that is not admin *)
(* is refused with 403 before the handler runs, as for any account; in     *)
(* both cases the account still exists afterwards, with its role.          *)
(***************************************************************************)
C18_SelfDeletion ==
  (req.op = "deleteUser" /\ TargetUser = req.user) =>
     /\ UserExists(req.user)
     /\ IF IsAdmin
          THEN res.status = 400 /\ res.message = "You cannot delete your own account"
          ELSE res.status = 403

\* the admin asked to delete its own account while a task it created exists
C18_Witness ==
  /\ req.op = "deleteUser" /\ TargetUser = req.user
  /\ IsAdmin
  /\ res.status = 400
  /\ \E id \in TaskIds : tasks[id].exists /\ tasks[id].createdBy = req.user

(***************************************************************************)
(* C19.  In every reachable state the assignedTo of each task is absent or *)
(* names an account that exists.                                           *)
(***************************************************************************)
C19_AssigneeExists ==
  \A id \in TaskIds :
     tasks[id].exists =>
       (tasks[id].assignedTo = NoUser \/ UserExists(tasks[id].assignedTo))

(***************************************************************************)
(* C20.  When the emit of taskAssigned or taskUpdated raises an error, the *)
(* create or update that triggered it is still answered 201 or 200 and the *)
(* task it stored stays stored.                                            *)
(***************************************************************************)
C20_EmitFailureTolerated ==
  /\ (req.op = "createTask" /\ ~ioUp /\ WellFormed
        /\ req.body.assignedTo # Absent /\ UserExists(SuppliedAssignee)
        /\ SuppliedAssignee # req.user
        /\ TaskValid(NewTask(req.user, req.body))
        /\ Len(SavedFiles(req.files)) = Len(req.files)) =>
        /\ res.status = 201
        /\ TaskExists(pre.nextTask)
        /\ tasks[pre.nextTask].assignedTo = SuppliedAssignee
  /\ (req.op = "updateTask" /\ ~ioUp /\ AllPdf /\ UpdateAcceptable
        /\ req.files = <<>>
        /\ UserExists(UpdatedTask(pre.task, req.body).assignedTo)) =>
        /\ res.status = 200
        /\ tasks[req.id] = UpdatedTask(pre.task, req.body)

(***************************************************************************)
(* Removal of documents and tasks, await by await.                         *)
(***************************************************************************)
NextOrder ==
  \/ CreateTask("u2", TitledBody("u3"), PdfBatch(1))
  \/ \E pr \in Procs, id \in TaskIds, d \in DocIds :
       BeginRemoveDocument(pr, "u2", id, d)
  \/ \E pr \in Procs : RemoveDocumentUnlink(pr)
  \/ \E pr \in Procs : RemoveDocumentSave(pr)
  \/ \E pr \in Procs : RemoveDocumentDelete(pr)
  \/ \E pr \in Procs, id \in TaskIds : BeginDeleteTask(pr, "u2", id)
  \/ \E pr \in Procs : DeleteTaskUnlink(pr)
  \/ \E pr \in Procs : DeleteTaskRecords(pr)
  \/ \E d \in DocIds : LockBlob(d)

SpecOrder == Init /\ [][NextOrder]_vars

\* C21: on task deletion and on document removal a file is deleted only
\* after the record of its document has been deleted: no step takes a file
\* out of the upload directory while the record of its document is still
\* in the store.
C21_BlobDeletedAfterMetadata ==
  [][\A d \in DocIds :
       (blobs[d] = "present" /\ blobs'[d] = "absent") => ~docs[d].exists]_vars

(***************************************************************************)
(* The accounts: creation, update, own profile and deletion.               *)
(***************************************************************************)
EmailInputs == {Absent, "A@x.io", "d@x.io", "bad"}

NextUsers ==
  \/ \E p \in {"u1", "u2"}, e \in EmailInputs, r \in {Absent, "admin"} :
       CreateUser(p, UserBody(e, r, NoUser))
  \/ \E p \in {"u1", "u2"}, e \in EmailInputs :
       UpdateProfile(p, UserBody(e, Absent, p))
  \/ \E p \in {"u1", "u2"}, u \in {"u2", "u4", GhostUser},
        e \in EmailInputs, r \in {Absent, "admin", "owner"} :
       UpdateUser(p, UserBody(e, r, u))
  \/ \E u \in {"u3", "u4"} : DeleteUser("u1", u)

SpecUsers == Init /\ [][NextUsers]_vars

UserWrites == {"createUser", "updateUser", "updateProfile"}

\* the account a request on accounts writes to
Subject(r) ==
  CASE r.op = "updateUser" -> r.body.target
    [] r.op = "updateProfile" -> r.user
    [] OTHER -> NoUser

\* the request passes the middleware and the validation, and finds its account
UserRequestAdmitted(r) ==
  /\ r.op \in UserWrites
  /\ r.op = "updateProfile" \/ adminAuth(r.user)
  /\ r.op = "createUser" \/ AccountExists(Subject(r))
  /\ UserBodyValid(r.body)

\* C22: after any sequence of create-user, update-user and own-profile
\* requests no two accounts have the same email, and a request that would
\* give an account the email of a different account is answered 400 and
\* leaves the accounts as they were.
C22_EmailsUnique ==
  /\ [](\A u \in Accounts, v \in Accounts : u # v => emails[u] # emails[v])
  /\ [][(/\ UserRequestAdmitted(req')
         /\ req'.body.email # Absent
         /\ EmailTaken(NormalizeEmail(req'.body.email), Subject(req')))
        => (res'.status = 400 /\ UNCHANGED <<users, emails>>)]_vars

C22_Witness ==
  /\ req.op \in {"updateUser", "updateProfile"}
  /\ res.status = 400
  /\ res.message = "Email already exists"
  /\ req.body.email = "A@x.io"
  /\ Cardinality(Accounts) = 4

(***************************************************************************)
(* Two updates of one task that attach a file each.                        *)
(***************************************************************************)
NextRace ==
  \/ CreateTask("u2", TitledBody("u3"), PdfBatch(2))
  \/ \E pr \in Procs, p \in {"u2", "u3"}, id \in TaskIds :
       BeginUpdateTask(pr, p, id, EmptyBody, PdfBatch(1))
  \/ \E pr \in Procs : UpdateTaskCount(pr)
  \/ \E pr \in Procs : UpdateTaskStore(pr)

SpecRace == Init /\ [][NextRace]_vars

\* connection pr is about to store the valid files of an update whose count
\* passed the limit test
ReadyToStore(pr) ==
  /\ Flying(pr)
  /\ flight[pr].op = "updateTask" /\ flight[pr].pc = "store"
  /\ tasks[flight[pr].req.id].exists
  /\ Len(SavedFiles(flight[pr].req.files)) = Len(flight[pr].req.files)
  /\ ioUp

\* C23: updates of one task are not coordinated: an update that read a count
\* within the limit stores its files and answers 200 whatever other updates
\* stored since it counted, so that two updates which both read 2 both
\* succeed and leave the task with 4 documents.
C23_UncoordinatedUpdates ==
  [][\A pr \in Procs :
       (ReadyToStore(pr) /\ ~Flying(pr)')
         => /\ res'.status = 200
            /\ Len(tasks'[flight[pr].req.id].documents)
                 = Len(tasks[flight[pr].req.id].documents)
                     + Len(flight[pr].req.files)
            /\ \A d \in DocsOfTask(flight[pr].req.id) : docs'[d] = docs[d]
            /\ \A i \in 1..Len(flight[pr].req.files) :
                 /\ docs'[nextDoc + i - 1].exists
                 /\ docs'[nextDoc + i - 1].taskId = flight[pr].req.id]_vars

\* both updates counted 2 documents and the task has 4
C23_Witness ==
  \E id \in TaskIds :
    /\ tasks[id].exists
    /\ Len(tasks[id].documents) = 4
    /\ Cardinality(DocsOfTask(id)) = 4
    /\ Cardinality(DocsOfTask(id)) > MaxDocuments
    /\ req.op = "updateTask" /\ req.id = id /\ Len(req.files) = 1
    /\ res.status = 200
    /\ Cardinality(pre.docs) = 2

(***************************************************************************)
(* Partial updates: payloads that name some fields, by every principal.    *)
(***************************************************************************)
FrameUpdateBodies ==
  {AssignBody("null"), AssignBody("u2"),
   [EmptyBody EXCEPT !.status = "completed"],
   [EmptyBody EXCEPT !.title = "Ship", !.priority = "high",
                     !.dueDate = FutureDate]}

NextFrame ==
  \/ \E n \in 0..1 : CreateTask("u2", TitledBody("u3"), PdfBatch(n))
  \/ \E p \in UserIds, id \in TaskIds, b \in FrameUpdateBodies :
       UpdateTask(p, id, b, <<>>)

SpecFrame == Init /\ [][NextFrame]_vars

\* C24: an update by a permitted principal whose assignedTo is the text
\* "null" is answered 200, leaves the task without assignee and emits
\* neither taskAssigned nor taskUpdated.
C24_NullSentinelClears ==
  (/\ req.op = "updateTask"
   /\ req.body.assignedTo = "null"
   /\ UpdateValid(req.id, [req.body EXCEPT !.assignedTo = Absent])
   /\ pre.task.exists
   /\ IsAdmin \/ IsCreator \/ IsAssignee)
  => /\ res.status = 200
     /\ tasks[req.id].assignedTo = NoUser
     /\ EventsNamed("taskAssigned") = <<>>
     /\ EventsNamed("taskUpdated") = <<>>

TaskFields ==
  {"title", "description", "status", "priority", "dueDate", "assignedTo"}

\* C25: a successful update changes only the fields of its payload: every
\* field of title, description, status, priority, dueDate and assignedTo
\* that the payload omits keeps its value, createdBy keeps its value, and
\* without files the document list and the document records stay as they
\* were, whoever of admin, creator and assignee sends the update.
C25_UpdateFrame ==
  (req.op = "updateTask" /\ res.status = 200)
  => /\ \A f \in TaskFields :
          req.body[f] = Absent => tasks[req.id][f] = pre.task[f]
     /\ tasks[req.id].createdBy = pre.task.createdBy
     /\ Len(req.files) = 0
          => /\ tasks[req.id].documents = pre.task.documents
             /\ docs = pre.records
             /\ blobs = pre.blobs
             /\ nextDoc = pre.nextDoc

\* the assignee, who is neither creator nor admin, hands a completed task
\* with a document over to somebody else
C25_Witness ==
  /\ req.op = "updateTask" /\ res.status = 200
  /\ req.user = "u3" /\ pre.task.assignedTo = "u3"
  /\ pre.task.createdBy = "u2" /\ users["u3"] = "user"
  /\ req.body = AssignBody("u2")
  /\ tasks[req.id].assignedTo = "u2"
  /\ pre.task.status = "completed" /\ tasks[req.id].status = "completed"
  /\ pre.task.priority = "high"
  /\ Len(tasks[req.id].documents) = 1

(***************************************************************************)
(* Updates with files, removals of documents and deletions of tasks that   *)
(* interleave.                                                             *)
(***************************************************************************)
NextInterleave ==
  \/ CreateTask("u2", TitledBody("u3"), PdfBatch(1))
  \/ BeginUpdateTask(1, "u3", 1, EmptyBody, PdfBatch(1))
  \/ \E pr \in Procs : UpdateTaskCount(pr)
  \/ \E pr \in Procs : UpdateTaskStore(pr)
  \/ \E d \in 1..2 : BeginRemoveDocument(2, "u2", 1, d)
  \/ \E pr \in Procs : RemoveDocumentUnlink(pr)
  \/ \E pr \in Procs : RemoveDocumentSave(pr)
  \/ \E pr \in Procs : RemoveDocumentDelete(pr)
  \/ BeginDeleteTask(2, "u2", 1)
  \/ \E pr \in Procs : DeleteTaskUnlink(pr)
  \/ \E pr \in Procs : DeleteTaskRecords(pr)

SpecInterleave == Init /\ [][NextInterleave]_vars

\* C26: once every request has been answered, each task lists exactly the
\* document records whose taskId names it, and every document record
\* belongs to a task that exists.
C26_ListMatchesRecords ==
  (\A pr \in Procs : ~Flying(pr))
  => /\ \A id \in TaskIds :
          tasks[id].exists => Range(tasks[id].documents) = DocsOfTask(id)
     /\ \A d \in DocIds : docs[d].exists => tasks[docs[d].taskId].exists

\* the last request named an existing task and a document of another task
CrossTaskRequest ==
  /\ req.op \in FetchModes \cup {"removeDocument"}
  /\ pre.task.exists
  /\ req.docId \in DocIds
  /\ pre.records[req.docId].exists
  /\ pre.records[req.docId].taskId # req.id

\* the document the last request named is as it was
DocumentUntouched ==
  /\ docs = pre.records
  /\ blobs = pre.blobs
  /\ \A id \in TaskIds : req.docId \in Range(tasks[id].documents)
                           <=> id = pre.records[req.docId].taskId

(***************************************************************************)
(* C27 as stated.  Every request on /tasks/A/documents/d, d a document of  *)
(* another task B, is answered 404 'Document not found' and leaves d       *)
(* untouched.                                                              *)
(***************************************************************************)
C27_CrossTaskAlwaysNotFound ==
  CrossTaskRequest
  => /\ res.status = 404 /\ res.message = "Document not found"
     /\ DocumentUntouched

\* C27: a document is never served or removed through another task: a
\* request on /tasks/A/documents/d, d a document of another task B, leaves d
\* untouched and is answered 404 'Document not found' when it is a removal
\* or comes from a principal with access to A, and 403 when it is a
\* download or a view by a principal without access to A.
C27_CrossTaskDocument ==
  CrossTaskRequest
  => LET may == IsAdmin \/ IsCreator \/ IsAssignee
     IN /\ (req.op = "removeDocument" \/ may)
             => (res.status = 404 /\ res.message = "Document not found")
        /\ (req.op \in FetchModes /\ ~may) => res.status = 403
        /\ res.data = <<>>
        /\ DocumentUntouched

\* the creator of both tasks asked to remove the document of the one
\* through the other
C27_Witness ==
  /\ CrossTaskRequest
  /\ req.op = "removeDocument"
  /\ IsCreator
  /\ tasks[pre.records[req.docId].taskId].createdBy = req.user
  /\ res.message = "Document not found"
  /\ blobs[req.docId] = "present"

(***************************************************************************)
(* Uploaders: an assignee attaches a document and is then replaced.        *)
(***************************************************************************)
NextUploader ==
  \/ CreateTask("u2", TitledBody("u3"), <<>>)
  \/ \E id \in TaskIds : UpdateTask("u3", id, EmptyBody, PdfBatch(1))
  \/ \E id \in TaskIds : UpdateTask("u2", id, AssignBody("u2"), <<>>)
  \/ \E id \in TaskIds : GetTask("u3", id)
  \/ \E id \in TaskIds, d \in DocIds : RemoveDocument("u3", id, d)

SpecUploader == Init /\ [][NextUploader]_vars

\* C28: whoever may remove a document of a task may also view the task: in
\* no reachable state is a principal answered 403 on GET /tasks/{id} while
\* its request to remove a document of that task would succeed.
C28_RemoverMayView ==
  \A p \in Principals, id \in TaskIds, d \in DocIds :
    RemoveDocumentResponse(p, id, d).status = 200
      => GetTaskResponse(p, id).status # 403

\* C29: creation is all-or-nothing: a create that is not answered 201 leaves
\* no new task record and no new document record, and emits nothing.
C29_CreateAllOrNothing ==
  (req.op = "createTask" /\ res.status # 201)
  => /\ nextTask = pre.nextTask
     /\ \A id \in TaskIds : id >= pre.nextTask => ~tasks[id].exists
     /\ docs = pre.records
     /\ nextDoc = pre.nextDoc
     /\ emitted = <<>>

(***************************************************************************)
(* Administrators who delete accounts at the same time.                    *)
(***************************************************************************)
NextAdmins ==
  \/ \E u \in {"u2", "u3"} : UpdateUser("u1", UserBody(Absent, "admin", u))
  \/ \E pr \in Procs, p \in UserIds, u \in UserIds : BeginDeleteUser(pr, p, u)
  \/ \E pr \in Procs : DeleteUserFind(pr)
  \/ \E pr \in Procs : DeleteUserDelete(pr)

SpecAdmins == Init /\ [][NextAdmins]_vars

\* C30: whatever DELETE /users/{id} requests interleave, once they have all
\* been answered at least one admin account exists.
C30_AdminRemains ==
  (\A pr \in Procs : ~Flying(pr))
  => \E u \in Accounts : users[u] = "admin"

====
